---- MODULE Spec2Model ----
(***************************************************************************)
(* Random-matchmaking engine of the chat backend (socket.io server).       *)
(* The model follows the variant with the timestamped waiting queue and    *)
(* the profile fetches inside findRandomMatch; cancelRandomMatch is taken  *)
(* from the sibling variant that has the same data structures.             *)
(*                                                                         *)
(* Sockets are numbered; the order of the numbers stands for the string    *)
(* order of socket ids used by Array.prototype.sort.  A profile is         *)
(* modelled by the fields the matchmaking decisions read: user_id and      *)
(* interests (a string, i.e. a sequence of one-character strings).         *)
(***************************************************************************)
EXTENDS Integers, Sequences, FiniteSets, TLC

\* ------------------------------------------------------------------ bounds
NumSockets == 3
MaxInflight == 2
MaxQueue == 2
MaxRooms == 2
MaxEvents == 3
MaxLen == 4

\* ------------------------------------------------------- program constants
WAITING_THRESHOLD == 15000

\* --------------------------------------------------------------- universes
Sockets == 1..NumSockets
Identities == {"u1", "u2"}
\* the join events tried by the model: each socket joins under one identity,
\* the first and the last socket under the same one
JoinInputs == {<<s, IF s = 2 THEN "u2" ELSE "u1">> : s \in 1..NumSockets}
None == "none"
\* instants at which events are handled, after the start at 0
Times == {1000, 16000}

\* Values of the interests column tried by the model.
Whitespace == {" "}
InterestStrings ==
    { <<"A">>,
      <<"b", ";", " ", "A">>,
      <<"b", ",", " ">>,
      <<"c", ",", "A">>,
      <<",">>,
      <<>> }

\* a null / undefined interests column (not a string)
NullString == <<"null">>

VARIABLES
    sockState,      \* socket id -> "open" | "closed"
    users,          \* socket id -> identity or None      (const users = {})
    waitingQueue,   \* sequence of [socketId, timestamp]
    randomMatches,  \* room id -> room record, NoRoom where nothing is stored
    joined,         \* room id -> sockets joined to that broadcast channel
    clock,          \* Date.now()
    inflight,       \* slot -> suspended findRandomMatch handler
    emits,          \* randomMatchStatus events emitted by the last handler step
    events,         \* number of matchmaking events handled so far (bounded by MaxEvents)
    normCall        \* a call of normalizeInterests: its argument and its result

vars == <<sockState, users, waitingQueue, randomMatches, joined, clock, inflight, emits, events,
          normCall>>

\* ------------------------------------------------------------ pure helpers

\* String.prototype.toLowerCase on one character
LowerChar(ch) ==
    CASE ch = "A" -> "a"
      [] ch = "B" -> "b"
      [] ch = "M" -> "m"
      [] ch = "T" -> "t"
      [] OTHER -> ch

\* index of the first character at or after i that is not whitespace
RECURSIVE SkipWhitespace(_, _)
SkipWhitespace(s, i) ==
    IF i <= Len(s) /\ s[i] \in Whitespace THEN SkipWhitespace(s, i + 1) ELSE i

\* String.prototype.split(/,\s*|;/)
RECURSIVE SplitFrom(_, _, _, _)
SplitFrom(s, i, cur, acc) ==
    IF i > Len(s) THEN Append(acc, cur)
    ELSE IF s[i] = ";" THEN SplitFrom(s, i + 1, <<>>, Append(acc, cur))
    ELSE IF s[i] = "," THEN SplitFrom(s, SkipWhitespace(s, i + 1), <<>>, Append(acc, cur))
    ELSE SplitFrom(s, i + 1, Append(cur, s[i]), acc)

SplitInterests(s) == SplitFrom(s, 1, <<>>, <<>>)

\* String.prototype.trim
RECURSIVE TrimLeft(_)
TrimLeft(s) ==
    IF s # <<>> /\ Head(s) \in Whitespace THEN TrimLeft(Tail(s)) ELSE s

RECURSIVE TrimRight(_)
TrimRight(s) ==
    IF s # <<>> /\ s[Len(s)] \in Whitespace THEN TrimRight(SubSeq(s, 1, Len(s) - 1)) ELSE s

\* faulty variant: trimStart in place of trim
TrimStartOnly(s) == TrimLeft(s)

Trim(s) == TrimRight(TrimLeft(s))

LowerCase(s) == [k \in 1..Len(s) |-> LowerChar(s[k])]

\* .map(i => i.toLowerCase().trim())
MapTrimLower(parts) == [k \in 1..Len(parts) |-> Trim(LowerCase(parts[k]))]

\* .filter(i => i.length > 0)
RECURSIVE FilterNonEmpty(_)
FilterNonEmpty(parts) ==
    IF parts = <<>> THEN <<>>
    ELSE IF Len(Head(parts)) > 0 THEN <<Head(parts)>> \o FilterNonEmpty(Tail(parts))
    ELSE FilterNonEmpty(Tail(parts))

\* a JavaScript string is falsy iff it is null/undefined or empty
Falsy(str) == str = NullString \/ str = <<>>

normalizeInterests(interests) ==
    IF Falsy(interests) THEN <<>>
    ELSE FilterNonEmpty(MapTrimLower(SplitInterests(interests)))

Range(f) == {f[k] : k \in DOMAIN f}

\* faulty variant: only the first interest of each side is compared
HasMutualFirst(currentInterests, waitingInterests) ==
    /\ Len(currentInterests) > 0 /\ Len(waitingInterests) > 0
    /\ currentInterests[1] = waitingInterests[1]

\* currentInterests.some(i => waitingInterests.includes(i))
HasMutual(currentInterests, waitingInterests) ==
    \E i \in 1..Len(currentInterests) :
        \E j \in 1..Len(waitingInterests) : currentInterests[i] = waitingInterests[j]

\* faulty variant: the pair is joined unsorted
UnsortedPair(a, b) == <<a, b>>

\* [socket.id, otherSocketId].sort()
SortPair(a, b) == IF a <= b THEN <<a, b>> ELSE <<b, a>>

\* "random-" + [socket.id, otherSocketId].sort().join("-")
RoomIdOf(a, b) == SortPair(a, b)

RoomIds == {RoomIdOf(a, b) : a \in Sockets, b \in Sockets}

\* faulty variant: <= in place of <
IsFreshInclusive(entry, now) == now - entry.timestamp <= WAITING_THRESHOLD

\* entry => now - entry.timestamp < WAITING_THRESHOLD
IsFresh(entry, now) == now - entry.timestamp < WAITING_THRESHOLD

\* faulty variant: findLastIndex in place of findIndex
FindLastFreshIndex(q, now) ==
    IF \E k \in 1..Len(q) : IsFresh(q[k], now)
    THEN CHOOSE k \in 1..Len(q) :
             IsFresh(q[k], now) /\ \A j \in (k + 1)..Len(q) : ~IsFresh(q[j], now)
    ELSE 0

\* Array.prototype.findIndex with the staleness test: first index of a fresh
\* entry, 0 for -1
FindFreshIndex(q, now) ==
    IF \E k \in 1..Len(q) : IsFresh(q[k], now)
    THEN CHOOSE k \in 1..Len(q) :
             IsFresh(q[k], now) /\ \A j \in 1..(k - 1) : ~IsFresh(q[j], now)
    ELSE 0

\* Array.prototype.findIndex by socket id: first index of an entry of sock, 0 for -1
FindSocketIndex(q, sock) ==
    IF \E k \in 1..Len(q) : q[k].socketId = sock
    THEN CHOOSE k \in 1..Len(q) :
             q[k].socketId = sock /\ \A j \in 1..(k - 1) : q[j].socketId # sock
    ELSE 0

\* faulty variant: the found entry is read but stays in the array
KeepAt(q, k) == q

\* Array.prototype.splice(k, 1): the array without its k-th element
RemoveAt(q, k) == SubSeq(q, 1, k - 1) \o SubSeq(q, k + 1, Len(q))

WaitingEntry(sock, now) == [socketId |-> sock, timestamp |-> now]

\* one randomMatchStatus event as received by socket `to`
Status(to, status, matchedUser, roomId, message) ==
    [to |-> to, status |-> status, matchedUser |-> matchedUser,
     roomId |-> roomId, message |-> message]

\* io.to(roomId).emit(...): one event per socket joined to the channel
Broadcast(roomId, status) ==
    {Status(s, status, None, roomId, None) : s \in joined[roomId]}

\* ------------------------------------------------------------------- rooms

\* randomMatches[roomId] === undefined
NoRoom == [users |-> <<>>, acceptances |-> <<>>, matchedUserData |-> <<>>]

\* { [socket.id]: false, [otherSocketId]: false }
InitialAcceptances(sock, other) == [k \in {sock, other} |-> FALSE]

\* faulty variant: each socket is given its own identity as matched user
NewRoomOwnData(sock, other, currentUserId, waitingUserId) ==
    [users |-> <<sock, other>>,
     acceptances |-> [k \in {sock, other} |-> FALSE],
     matchedUserData |->
        [k \in {sock, other} |-> IF k = other THEN waitingUserId ELSE currentUserId]]

\* the object literal stored at randomMatches[roomId]; for equal keys the later
\* property of the literal wins
NewRoom(sock, other, currentUserId, waitingUserId) ==
    [users |-> <<sock, other>>,
     acceptances |-> InitialAcceptances(sock, other),
     matchedUserData |->
        [k \in {sock, other} |-> IF k = other THEN currentUserId ELSE waitingUserId]]

\* matchedUserData[sockId], undefined for a socket that is no key
MatchedUserFor(room, sock) ==
    IF sock \in DOMAIN room.matchedUserData THEN room.matchedUserData[sock] ELSE None

\* faulty variant: the flag is toggled instead of set
ToggleAccepted(acceptances, sock) ==
    [k \in (DOMAIN acceptances) \cup {sock} |->
        IF k = sock THEN ~(sock \in DOMAIN acceptances /\ acceptances[sock])
        ELSE acceptances[k]]

\* acceptances[socket.id] = true
SetAccepted(acceptances, sock) ==
    [k \in (DOMAIN acceptances) \cup {sock} |-> IF k = sock THEN TRUE ELSE acceptances[k]]

\* faulty variant: Array.prototype.some in place of every
SomeAccepted(roomUsers, acceptances) ==
    \E k \in 1..Len(roomUsers) : acceptances[roomUsers[k]]

\* matchUsers.every(id => acceptances[id])
BothAccepted(roomUsers, acceptances) ==
    \A k \in 1..Len(roomUsers) : acceptances[roomUsers[k]]

\* if (randomMatches[roomId])
RoomExists(roomId) == randomMatches[roomId] # NoRoom

StoredRooms == {r \in RoomIds : RoomExists(r)}

\* ------------------------------------------------------- profile store

\* results of supabase.from("user_profiles").select(...).eq("user_id", id).single():
\* the call rejects, resolves with an error, or resolves with the row.  A query
\* for an undefined id selects no row.
FetchOutcomes(userId) ==
    {[kind |-> "throw", interests |-> NullString],
     [kind |-> "error", interests |-> NullString]}
    \cup (IF userId = None THEN {}
          ELSE {[kind |-> "ok", interests |-> i] : i \in InterestStrings \cup {NullString}})

\* ----------------------------------------------------------------- handlers

\* no call of normalizeInterests is being followed
NoCall == [interests |-> NullString, result |-> <<>>, returned |-> TRUE]

Idle ==
    [pc |-> "idle", sock |-> 0, currentUserId |-> None, currentInterests |-> <<>>,
     otherSocketId |-> 0, waitingUserId |-> None, recipientId |-> None]

FreeSlots == {h \in 1..MaxInflight : inflight[h].pc = "idle"}

Slots == 1..MaxInflight

Init ==
    /\ sockState = [s \in Sockets |-> "open"]
    /\ users = [s \in Sockets |-> None]
    /\ waitingQueue = <<>>
    /\ randomMatches = [r \in RoomIds |-> NoRoom]
    /\ joined = [r \in RoomIds |-> {}]
    /\ clock = 0
    /\ inflight = [h \in Slots |-> Idle]
    /\ emits = {}
    /\ events = 0
    /\ normCall = NoCall

\* socket.on("join", userId => ...)
Join(sock, userId) ==
    /\ sockState[sock] = "open"
    /\ users' = [users EXCEPT ![sock] = userId]
    /\ emits' = {}
    /\ UNCHANGED <<sockState, waitingQueue, randomMatches, joined, clock, inflight>>

\* faulty variant: the handler goes on without the test of currentUserId
FindRandomMatchUnguarded(sock) ==
    /\ sockState[sock] = "open"
    /\ emits' = {}
    /\ FreeSlots # {}
    /\ LET h == CHOOSE x \in FreeSlots : \A y \in FreeSlots : x <= y
       IN inflight' = [inflight EXCEPT ![h] =
              [Idle EXCEPT !.pc = "fetchCurrent", !.sock = sock,
                           !.currentUserId = users[sock]]]
    /\ UNCHANGED <<sockState, users, waitingQueue, randomMatches, joined, clock>>

\* socket.on("findRandomMatch", async () => ...) up to its first await
FindRandomMatch(sock) ==
    /\ sockState[sock] = "open"
    /\ emits' = {}
    /\ IF users[sock] = None
       THEN UNCHANGED inflight
       ELSE /\ FreeSlots # {}
            /\ LET h == CHOOSE x \in FreeSlots : \A y \in FreeSlots : x <= y
               IN inflight' = [inflight EXCEPT ![h] =
                      [Idle EXCEPT !.pc = "fetchCurrent", !.sock = sock,
                                   !.currentUserId = users[sock]]]
    /\ UNCHANGED <<sockState, users, waitingQueue, randomMatches, joined, clock>>

ErrorStatus(sock, message) == {Status(sock, "error", None, None, message)}

\* step 3/4 of findRandomMatch: scan the queue, then push the requester or
\* splice the found entry out and start the fetch of its profile
ScanQueue(h, currentInterests) ==
    LET me == inflight[h]
        now == clock
        waitingEntryIndex == FindFreshIndex(waitingQueue, now)
    IN IF waitingEntryIndex = 0
       THEN /\ Len(waitingQueue) < MaxQueue
            /\ waitingQueue' = Append(waitingQueue, WaitingEntry(me.sock, now))
            /\ emits' = {Status(me.sock, "waiting", None, None, "waiting")}
            /\ inflight' = [inflight EXCEPT ![h] = Idle]
       ELSE LET otherSocketId == waitingQueue[waitingEntryIndex].socketId
            IN /\ waitingQueue' = RemoveAt(waitingQueue, waitingEntryIndex)
               /\ emits' = {}
               /\ inflight' = [inflight EXCEPT ![h] =
                      [me EXCEPT !.pc = "fetchWaiting",
                                 !.currentInterests = currentInterests,
                                 !.otherSocketId = otherSocketId,
                                 !.waitingUserId = users[otherSocketId]]]

\* findRandomMatch from the resolution of the first fetch to the next await or return
ResumeCurrent(h, res) ==
    /\ inflight[h].pc = "fetchCurrent"
    /\ res \in FetchOutcomes(inflight[h].currentUserId)
    /\ IF res.kind = "throw"
       THEN /\ emits' = ErrorStatus(inflight[h].sock, "failed")
            /\ inflight' = [inflight EXCEPT ![h] = Idle]
            /\ UNCHANGED waitingQueue
       ELSE IF res.kind = "error" \/ Falsy(res.interests)
       THEN /\ emits' = ErrorStatus(inflight[h].sock, "incomplete")
            /\ inflight' = [inflight EXCEPT ![h] = Idle]
            /\ UNCHANGED waitingQueue
       ELSE ScanQueue(h, normalizeInterests(res.interests))
    /\ UNCHANGED <<sockState, users, randomMatches, joined, clock>>

\* faulty variant: `pending` is emitted to the requester alone
CreateRoomNotifyRequester(h) ==
    LET me == inflight[h]
        roomId == RoomIdOf(me.sock, me.otherSocketId)
        room == NewRoom(me.sock, me.otherSocketId, me.currentUserId, me.waitingUserId)
    IN /\ randomMatches' = [randomMatches EXCEPT ![roomId] = room]
       /\ joined' = [joined EXCEPT ![roomId] =
              @ \cup {me.sock}
                \cup (IF sockState[me.otherSocketId] = "open" THEN {me.otherSocketId} ELSE {})]
       /\ emits' = {Status(me.sock, "pending", MatchedUserFor(room, me.sock), roomId, None)}

\* steps 7-9 of findRandomMatch: store the room, join the channel, notify both
CreateRoom(h) ==
    LET me == inflight[h]
        roomId == RoomIdOf(me.sock, me.otherSocketId)
        room == NewRoom(me.sock, me.otherSocketId, me.currentUserId, me.waitingUserId)
    IN /\ randomMatches' = [randomMatches EXCEPT ![roomId] = room]
       /\ joined' = [joined EXCEPT ![roomId] =
              @ \cup {me.sock}
                \cup (IF sockState[me.otherSocketId] = "open" THEN {me.otherSocketId} ELSE {})]
       /\ emits' = {Status(me.sock, "pending", MatchedUserFor(room, me.sock), roomId, None),
                    Status(me.otherSocketId, "pending",
                           MatchedUserFor(room, me.otherSocketId), roomId, None)}

\* faulty variant: when the partner's profile cannot be fetched, the claimed
\* entry is put back into the queue
ResumeWaitingRequeue(h, res) ==
    /\ inflight[h].pc = "fetchWaiting"
    /\ res \in FetchOutcomes(inflight[h].waitingUserId)
    /\ inflight' = [inflight EXCEPT ![h] = Idle]
    /\ IF res.kind = "throw" \/ res.kind = "error"
       THEN /\ emits' = ErrorStatus(inflight[h].sock,
                                    IF res.kind = "throw" THEN "failed" ELSE "finding")
            /\ waitingQueue' =
                    Append(waitingQueue, WaitingEntry(inflight[h].otherSocketId, clock))
            /\ UNCHANGED <<randomMatches, joined>>
       ELSE IF ~HasMutual(inflight[h].currentInterests, normalizeInterests(res.interests))
       THEN /\ emits' = ErrorStatus(inflight[h].sock, "nomutual")
            /\ UNCHANGED <<randomMatches, joined, waitingQueue>>
       ELSE /\ Cardinality(StoredRooms \cup {RoomIdOf(inflight[h].sock, inflight[h].otherSocketId)}) <= MaxRooms
            /\ CreateRoom(h)
            /\ UNCHANGED waitingQueue
    /\ UNCHANGED <<sockState, users, clock>>

\* findRandomMatch from the resolution of the second fetch to its end
ResumeWaiting(h, res) ==
    /\ inflight[h].pc = "fetchWaiting"
    /\ res \in FetchOutcomes(inflight[h].waitingUserId)
    /\ inflight' = [inflight EXCEPT ![h] = Idle]
    /\ IF res.kind = "throw"
       THEN /\ emits' = ErrorStatus(inflight[h].sock, "failed")
            /\ UNCHANGED <<randomMatches, joined>>
       ELSE IF res.kind = "error"
       THEN /\ emits' = ErrorStatus(inflight[h].sock, "finding")
            /\ UNCHANGED <<randomMatches, joined>>
       ELSE IF ~HasMutual(inflight[h].currentInterests, normalizeInterests(res.interests))
       THEN /\ emits' = ErrorStatus(inflight[h].sock, "nomutual")
            /\ UNCHANGED <<randomMatches, joined>>
       ELSE /\ Cardinality(StoredRooms \cup {RoomIdOf(inflight[h].sock, inflight[h].otherSocketId)}) <= MaxRooms
            /\ CreateRoom(h)
    /\ UNCHANGED <<sockState, users, waitingQueue, clock>>

\* faulty variant: `connected` goes to the accepting socket alone
AcceptEmitsToSender(sock, roomId, room) ==
    {Status(sock,
            IF BothAccepted(room.users, room.acceptances) THEN "connected" ELSE "waiting",
            MatchedUserFor(room, sock), roomId, None)}

\* the events randomMatchAccept emits once the flag is set
AcceptEmits(sock, roomId, room) ==
    IF BothAccepted(room.users, room.acceptances)
    THEN {Status(room.users[k], "connected", MatchedUserFor(room, room.users[k]), roomId, None)
            : k \in 1..Len(room.users)}
    ELSE {Status(sock, "waiting", MatchedUserFor(room, sock), roomId, None)}

\* Property names that the object literal {} of randomMatches inherits from
\* Object.prototype: randomMatches[name] is a function or an object, truthy,
\* though no room was ever stored under the name.
InheritedKeys == {<<"constructor">>}

\* the room ids a client may send: those of rooms, stored or not, and an
\* inherited property name
RoomIdInputs == RoomIds \cup InheritedKeys

\* an exception leaves a synchronous event handler: nothing catches it and the
\* server process ends, with all connections and all in-memory state
UncaughtException ==
    /\ sockState' = [s \in Sockets |-> "closed"]
    /\ users' = [s \in Sockets |-> None]
    /\ waitingQueue' = <<>>
    /\ randomMatches' = [r \in RoomIds |-> NoRoom]
    /\ joined' = [r \in RoomIds |-> {}]
    /\ inflight' = [h \in Slots |-> Idle]
    /\ emits' = {}
    /\ UNCHANGED clock

\* socket.on("randomMatchAccept", ({ roomId }) => ...); for an inherited
\* property name the test passes, `.acceptances` is undefined and the
\* assignment to acceptances[socket.id] throws a TypeError
RandomMatchAccept(sock, roomId) ==
    /\ sockState[sock] = "open"
    /\ IF roomId \in InheritedKeys
       THEN UncaughtException
       ELSE /\ IF RoomExists(roomId)
               THEN LET room == [randomMatches[roomId] EXCEPT
                                    !.acceptances = SetAccepted(@, sock)]
                    IN /\ randomMatches' = [randomMatches EXCEPT ![roomId] = room]
                       /\ emits' = AcceptEmits(sock, roomId, room)
               ELSE /\ emits' = {}
                    /\ UNCHANGED randomMatches
            /\ UNCHANGED <<sockState, users, waitingQueue, joined, clock, inflight>>

\* faulty variant: both participants of the rejected room are pushed to the queue
RandomMatchRejectRequeueAll(sock, roomId) ==
    /\ sockState[sock] = "open"
    /\ IF RoomExists(roomId)
       THEN /\ Len(waitingQueue) < MaxQueue
            /\ emits' = Broadcast(roomId, "rejected")
            /\ randomMatches' = [randomMatches EXCEPT ![roomId] = NoRoom]
            /\ waitingQueue' = waitingQueue \o
                    [k \in 1..Len(randomMatches[roomId].users) |->
                        WaitingEntry(randomMatches[roomId].users[k], clock)]
       ELSE /\ emits' = {}
            /\ UNCHANGED <<randomMatches, waitingQueue>>
    /\ UNCHANGED <<sockState, users, joined, clock, inflight>>

\* socket.on("randomMatchReject", ({ roomId }) => ...); for an inherited
\* property name the test passes: the broadcast goes to a channel without
\* members, delete finds no own property, and the sender is pushed
RandomMatchReject(sock, roomId) ==
    /\ sockState[sock] = "open"
    /\ IF roomId \in InheritedKeys
       THEN /\ Len(waitingQueue) < MaxQueue
            /\ emits' = {}
            /\ UNCHANGED randomMatches
            /\ waitingQueue' = Append(waitingQueue, WaitingEntry(sock, clock))
       ELSE IF RoomExists(roomId)
       THEN /\ Len(waitingQueue) < MaxQueue
            /\ emits' = Broadcast(roomId, "rejected")
            /\ randomMatches' = [randomMatches EXCEPT ![roomId] = NoRoom]
            /\ waitingQueue' = Append(waitingQueue, WaitingEntry(sock, clock))
       ELSE /\ emits' = {}
            /\ UNCHANGED <<randomMatches, waitingQueue>>
    /\ UNCHANGED <<sockState, users, joined, clock, inflight>>

\* faulty variant: the queue is shifted when the socket has an entry
RemoveOldestEntry(q, sock) ==
    IF FindSocketIndex(q, sock) # 0 THEN Tail(q) ELSE q

\* faulty variant: splice(index, 1) without the test for -1, which takes the
\* last entry out when the socket has none
RemoveSocketUnguarded(q, sock) ==
    LET index == FindSocketIndex(q, sock)
    IN IF index # 0 THEN RemoveAt(q, index) ELSE SubSeq(q, 1, Len(q) - 1)

\* the queue without the first entry of the socket, if it has one
RemoveSocket(q, sock) ==
    LET index == FindSocketIndex(q, sock)
    IN IF index # 0 THEN RemoveAt(q, index) ELSE q

\* socket.on("cancelRandomMatch", () => ...)
CancelRandomMatch(sock) ==
    /\ sockState[sock] = "open"
    /\ waitingQueue' = RemoveSocket(waitingQueue, sock)
    /\ emits' = {}
    /\ UNCHANGED <<sockState, users, randomMatches, joined, clock, inflight>>

\* faulty variant: the disconnect also sweeps the rooms of the socket; each one
\* is deleted and its channel is told `rejected`
DisconnectSweepingRooms(sock) ==
    LET swept == {r \in RoomIds :
                    \E k \in DOMAIN randomMatches[r].users :
                        randomMatches[r].users[k] = sock}
    IN /\ sockState[sock] = "open"
       /\ sockState' = [sockState EXCEPT ![sock] = "closed"]
       /\ users' = [users EXCEPT ![sock] = None]
       /\ waitingQueue' = RemoveSocket(waitingQueue, sock)
       /\ joined' = [r \in RoomIds |-> joined[r] \ {sock}]
       /\ randomMatches' = [r \in RoomIds |->
                IF r \in swept THEN NoRoom ELSE randomMatches[r]]
       /\ emits' = {Status(p, "rejected", None, r, None) :
                        <<p, r>> \in {x \in Sockets \X swept : x[1] \in joined[x[2]] \ {sock}}}
       /\ UNCHANGED <<clock, inflight>>

\* socket.on("disconnect", () => ...); socket.io takes the socket out of its channels
Disconnect(sock) ==
    /\ sockState[sock] = "open"
    /\ sockState' = [sockState EXCEPT ![sock] = "closed"]
    /\ users' = [users EXCEPT ![sock] = None]
    /\ waitingQueue' = RemoveSocket(waitingQueue, sock)
    /\ joined' = [r \in RoomIds |-> joined[r] \ {sock}]
    /\ emits' = {}
    /\ UNCHANGED <<randomMatches, clock, inflight>>

\* passage of time between events
Tick(t) ==
    /\ t > clock
    /\ clock' = t
    /\ UNCHANGED <<sockState, users, waitingQueue, randomMatches, joined, inflight, emits>>

AllOutcomes == FetchOutcomes("u1")

\* one more matchmaking event is handled, within the bound of the model
Spend == events < MaxEvents /\ events' = events + 1

Next ==
    \/ \E j \in JoinInputs : Join(j[1], j[2]) /\ UNCHANGED <<events, normCall>>
    \/ \E s \in Sockets : Spend /\ FindRandomMatch(s) /\ UNCHANGED normCall
    \/ \E h \in Slots, res \in AllOutcomes : ResumeCurrent(h, res) /\ UNCHANGED <<events, normCall>>
    \/ \E h \in Slots, res \in AllOutcomes : ResumeWaiting(h, res) /\ UNCHANGED <<events, normCall>>
    \/ \E s \in Sockets, r \in RoomIds : Spend /\ RandomMatchAccept(s, r) /\ UNCHANGED normCall
    \/ \E s \in Sockets, r \in RoomIds : Spend /\ RandomMatchReject(s, r) /\ UNCHANGED normCall
    \/ \E s \in Sockets : Spend /\ CancelRandomMatch(s) /\ UNCHANGED normCall
    \/ \E s \in Sockets : Spend /\ Disconnect(s) /\ UNCHANGED normCall
    \/ \E t \in Times : Tick(t) /\ UNCHANGED <<events, normCall>>

Spec == Init /\ [][Next]_vars

\* ------------------------------------------------------------ scenarios

\* the handler of slot h, suspended on the fetch of its own profile
Requesting(sock) ==
    [Idle EXCEPT !.pc = "fetchCurrent", !.sock = sock, !.currentUserId = users[sock]]

\* Race of two requesters for one waiting entry: socket 1 has asked for a match
\* and waits in the queue; sockets 2 and 3 have then sent findRandomMatch and
\* both handlers are suspended on the fetch of the requester's profile.
RaceRequesters == {2, 3}
RaceWaiter == CHOOSE s \in Sockets : s \notin RaceRequesters /\ \A t \in Sockets : s <= t

InitRace ==
    /\ sockState = [s \in Sockets |-> "open"]
    /\ users = [s \in Sockets |-> IF s = 2 THEN "u2" ELSE IF s \in {1, 3} THEN "u1" ELSE None]
    /\ waitingQueue = <<WaitingEntry(RaceWaiter, 0)>>
    /\ randomMatches = [r \in RoomIds |-> NoRoom]
    /\ joined = [r \in RoomIds |-> {}]
    /\ clock = 0
    /\ inflight = [h \in Slots |-> IF h = 1 THEN Requesting(2)
                                   ELSE IF h = 2 THEN Requesting(3) ELSE Idle]
    /\ emits = {}
    /\ events = 3
    /\ normCall = NoCall

\* the two handlers run on, in any interleaving, while time passes
NextRace ==
    \/ \E h \in Slots, res \in AllOutcomes : ResumeCurrent(h, res) /\ UNCHANGED <<events, normCall>>
    \/ \E h \in Slots, res \in AllOutcomes : ResumeWaiting(h, res) /\ UNCHANGED <<events, normCall>>
    \/ \E t \in Times : Tick(t) /\ UNCHANGED <<events, normCall>>

SpecRace == InitRace /\ [][NextRace]_vars

\* A pending room: socket 1 waited, socket 2 asked for a match and was paired
\* with it; both have been told `pending`.  From there every event may follow.
PendingRoomId == RoomIdOf(2, 1)

InitPending ==
    /\ sockState = [s \in Sockets |-> "open"]
    /\ users = [s \in Sockets |-> IF s = 1 THEN "u1" ELSE IF s = 2 THEN "u2" ELSE None]
    /\ waitingQueue = <<>>
    /\ randomMatches = [r \in RoomIds |->
            IF r = PendingRoomId THEN NewRoom(2, 1, "u2", "u1") ELSE NoRoom]
    /\ joined = [r \in RoomIds |-> IF r = PendingRoomId THEN {1, 2} ELSE {}]
    /\ clock = 0
    /\ inflight = [h \in Slots |-> Idle]
    /\ emits = {Status(2, "pending", "u1", PendingRoomId, None),
                Status(1, "pending", "u2", PendingRoomId, None)}
    /\ events = 0
    /\ normCall = NoCall

SpecPending == InitPending /\ [][Next]_vars

\* A connected room: in the pending room socket 1 accepted, then socket 2, and
\* both have been told `connected`.
InitConnected ==
    /\ sockState = [s \in Sockets |-> "open"]
    /\ users = [s \in Sockets |-> IF s = 1 THEN "u1" ELSE IF s = 2 THEN "u2" ELSE None]
    /\ waitingQueue = <<>>
    /\ randomMatches = [r \in RoomIds |->
            IF r = PendingRoomId
            THEN [NewRoom(2, 1, "u2", "u1") EXCEPT !.acceptances = [k \in {1, 2} |-> TRUE]]
            ELSE NoRoom]
    /\ joined = [r \in RoomIds |-> IF r = PendingRoomId THEN {1, 2} ELSE {}]
    /\ clock = 0
    /\ inflight = [h \in Slots |-> Idle]
    /\ emits = {Status(1, "connected", "u2", PendingRoomId, None),
                Status(2, "connected", "u1", PendingRoomId, None)}
    /\ events = 0
    /\ normCall = NoCall

SpecConnected == InitConnected /\ [][Next]_vars

\* the scenarios start in states the server reaches from Init
RaceStartReached ==
    /\ waitingQueue = <<WaitingEntry(RaceWaiter, 0)>>
    /\ inflight[1] = Requesting(2) /\ inflight[2] = Requesting(3)
    /\ users[1] = "u1" /\ users[2] = "u2" /\ users[3] = "u1"
    /\ clock = 0 /\ emits = {} /\ events = 3
    /\ StoredRooms = {}

PendingStartReached ==
    /\ randomMatches[PendingRoomId] = NewRoom(2, 1, "u2", "u1")
    /\ StoredRooms = {PendingRoomId}
    /\ joined[PendingRoomId] = {1, 2}
    /\ waitingQueue = <<>>
    /\ users[1] = "u1" /\ users[2] = "u2" /\ users[3] = None
    /\ clock = 0
    /\ \A h \in Slots : inflight[h] = Idle
    /\ emits = {Status(2, "pending", "u1", PendingRoomId, None),
                Status(1, "pending", "u2", PendingRoomId, None)}

\* reached from the pending room by the two accepts
ConnectedStartReached ==
    /\ randomMatches[PendingRoomId] =
            [NewRoom(2, 1, "u2", "u1") EXCEPT !.acceptances = [k \in {1, 2} |-> TRUE]]
    /\ StoredRooms = {PendingRoomId}
    /\ joined[PendingRoomId] = {1, 2}
    /\ waitingQueue = <<>>
    /\ users[1] = "u1" /\ users[2] = "u2" /\ users[3] = None
    /\ clock = 0
    /\ \A h \in Slots : inflight[h] = Idle
    /\ emits = {Status(1, "connected", "u2", PendingRoomId, None),
                Status(2, "connected", "u1", PendingRoomId, None)}

NotRaceStartReached == ~RaceStartReached
NotConnectedStartReached == ~ConnectedStartReached
NotPendingStartReached == ~PendingStartReached

\* ------------------------------------------------------- shared vocabulary

\* the sockets that have an entry in the waiting queue
InPool(sock) == \E k \in 1..Len(waitingQueue) : waitingQueue[k].socketId = sock

\* number of queue entries of a socket
EntriesOf(q, sock) == Cardinality({k \in 1..Len(q) : q[k].socketId = sock})

\* the participants of a stored room
Participants(roomId) == Range(randomMatches[roomId].users)

\* the handler of slot h passes, in this step, from its first await to the
\* scan of the waiting queue (its profile was fetched and has interests)
Scans(h) ==
    /\ inflight[h].pc = "fetchCurrent"
    /\ inflight'[h].pc # "fetchCurrent"
    /\ \A e \in emits' : e.status # "error"

\* the handler of slot h has claimed the entry of socket `other` and is
\* suspended on the fetch of that socket's profile
Holds(h, other) ==
    inflight[h].pc = "fetchWaiting" /\ inflight[h].otherSocketId = other

\* ------------------------------------------------------------------- C1

\* the requesters of the race that are paired with the waiter: the handler
\* holds the waiter's entry, or their room is stored
RacePaired ==
    {s \in RaceRequesters :
        \/ \E h \in Slots : Holds(h, RaceWaiter) /\ inflight[h].sock = s
        \/ RoomExists(RoomIdOf(s, RaceWaiter))}

RaceWaiterFresh ==
    \E k \in 1..Len(waitingQueue) :
        /\ waitingQueue[k].socketId = RaceWaiter
        /\ clock - waitingQueue[k].timestamp < 15000

NoFreshEntry ==
    \A k \in 1..Len(waitingQueue) : clock - waitingQueue[k].timestamp >= 15000

RaceScan(h) ==
    LET s == inflight[h].sock
    IN /\ RaceWaiterFresh =>
            /\ inflight'[h].pc = "fetchWaiting"
            /\ inflight'[h].otherSocketId = RaceWaiter
            /\ EntriesOf(waitingQueue', RaceWaiter) = 0
            /\ EntriesOf(waitingQueue', s) = EntriesOf(waitingQueue, s)
       /\ ~InPool(RaceWaiter) => ~(inflight'[h].pc = "fetchWaiting"
                                    /\ inflight'[h].otherSocketId = RaceWaiter)
       /\ NoFreshEntry =>
            /\ inflight'[h].pc = "idle"
            /\ waitingQueue' = Append(waitingQueue, [socketId |-> s, timestamp |-> clock])
            /\ emits' = {Status(s, "waiting", None, None, "waiting")}

\* C1: in the race of two requesters for one waiting entry, at most one of
\* them is ever paired with the waiter; the requester that scans the queue
\* while the waiter's entry is fresh takes it out of the queue, and a requester
\* that scans when no fresh entry is left is appended to the queue and told
\* `waiting`.
NoDoublePairing ==
    /\ [](Cardinality(RacePaired) <= 1)
    /\ [][\A h \in Slots : Scans(h) => RaceScan(h)]_vars

\* one requester holds the waiter's entry, the other one is in the queue
NoDoublePairingWitness ==
    \E a \in RaceRequesters, b \in RaceRequesters :
        /\ a # b
        /\ \E h \in Slots : Holds(h, RaceWaiter) /\ inflight[h].sock = a
        /\ waitingQueue = <<[socketId |-> b, timestamp |-> 0]>>

\* ------------------------------------------------------------------- C2

\* C2: in every reachable state each connection has at most one entry in the
\* waiting queue.
AtMostOnePoolEntry ==
    \A s \in Sockets : EntriesOf(waitingQueue, s) <= 1

\* ------------------------------------------------------------------- C3

\* the stored rooms that have the socket among their participants
RoomsOf(sock) == {r \in StoredRooms : sock \in Participants(r)}

\* C3: in every reachable state each connection is a participant of at most
\* one stored room.
AtMostOneRoomPerConnection ==
    \A s \in Sockets : Cardinality(RoomsOf(s)) <= 1

\* ------------------------------------------------------------------- C4

\* C4: the keys of the acceptance map of every stored room are exactly the
\* room's participants, and a room is stored with both flags false.
AcceptanceKeysAreParticipants ==
    /\ [](\A r \in StoredRooms : DOMAIN randomMatches[r].acceptances = Participants(r))
    /\ [][\A r \in RoomIds :
            (RoomExists(r)' /\ randomMatches'[r].users # randomMatches[r].users)
                => \A p \in Participants(r)' : ~randomMatches'[r].acceptances[p]]_vars

\* ------------------------------------------------------------------- C5

\* the acceptance flag of a socket is set in a stored room
Accepted(roomId, sock) ==
    /\ RoomExists(roomId)
    /\ sock \in DOMAIN randomMatches[roomId].acceptances
    /\ randomMatches[roomId].acceptances[sock]

\* a handler finishes in this step by storing and announcing a room
RoomCreated(roomId) ==
    /\ \E h \in Slots : inflight[h].pc = "fetchWaiting" /\ inflight'[h].pc = "idle"
    /\ \E e \in emits' : e.status = "pending" /\ e.roomId = roomId

\* C5: `connected` is emitted for a room only when the flags of all its
\* participants are set; a flag is set only by randomMatchAccept of that very
\* socket for that room, and a room is (re)created with no flag set.
ConnectedOnlyAfterBothAccept ==
    /\ [](\A e \in emits : e.status = "connected" =>
            \A p \in Participants(e.roomId) : Accepted(e.roomId, p))
    /\ [][\A r \in RoomIds, p \in Sockets :
            (Accepted(r, p)' /\ ~Accepted(r, p)) => RandomMatchAccept(p, r)]_vars
    /\ [][\A r \in RoomIds :
            RoomCreated(r) => \A p \in Sockets : ~Accepted(r, p)']_vars

\* `connected` has been emitted for a room of two distinct connections
ConnectedOnlyAfterBothAcceptWitness ==
    \E e \in emits :
        /\ e.status = "connected"
        /\ Cardinality(Participants(e.roomId)) = 2

\* ------------------------------------------------------------------- C6

\* the interests two normalized lists have in common
SharedInterests(a, b) == Range(a) \cap Range(b)

\* the room of the requester of slot h and its claimed partner is stored and
\* announced
PairedBy(h) ==
    LET roomId == RoomIdOf(inflight[h].sock, inflight[h].otherSocketId)
    IN /\ randomMatches'[roomId].users = <<inflight[h].sock, inflight[h].otherSocketId>>
       /\ \E e \in emits' : e.status = "pending" /\ e.roomId = roomId

\* C6: when the handler resumes with the partner's profile, the room is stored
\* iff the requester's and the partner's normalized interests intersect; a
\* room gets new participants in no other step.
MutualInterestDecidesRoom ==
    /\ [][\A h \in Slots, res \in AllOutcomes :
            (res.kind = "ok" /\ ResumeWaiting(h, res)) =>
                (PairedBy(h) <=>
                    SharedInterests(inflight[h].currentInterests,
                                    normalizeInterests(res.interests)) # {})]_vars
    /\ [][\A r \in RoomIds :
            (RoomExists(r)' /\ randomMatches'[r].users # randomMatches[r].users) =>
                \E h \in Slots, res \in AllOutcomes :
                    /\ res.kind = "ok" /\ ResumeWaiting(h, res)
                    /\ r = RoomIdOf(inflight[h].sock, inflight[h].otherSocketId)
                    /\ SharedInterests(inflight[h].currentInterests,
                                       normalizeInterests(res.interests)) # {}]_vars

\* a room has just been stored and announced to two distinct connections
MutualInterestDecidesRoomWitness ==
    \E e \in emits :
        /\ e.status = "pending"
        /\ RoomExists(e.roomId)
        /\ Cardinality(Participants(e.roomId)) = 2
        /\ \A p \in Participants(e.roomId) : ~Accepted(e.roomId, p)

\* ------------------------------------------------------------------- C7

\* the two participants of the room are distinct, s is one and o the other
PairOf(roomId, s, o) ==
    RoomExists(roomId) /\ s # o /\ Participants(roomId) = {s, o}

\* C7: in a room of two participants, randomMatchAccept by one of them while
\* the other has not accepted emits `waiting` to the accepting socket and
\* nothing else; randomMatchAccept by one of them once the other has accepted
\* emits `connected` with the room id to both, each with its own peer snapshot.
HandshakeOrder ==
    [][\A s \in Sockets, o \in Sockets, r \in RoomIds :
        (PairOf(r, s, o) /\ RandomMatchAccept(s, r)) =>
            IF Accepted(r, o)
            THEN emits' =
                    {[to |-> p, status |-> "connected", roomId |-> r, message |-> None,
                      matchedUser |-> randomMatches[r].matchedUserData[p]] : p \in {s, o}}
            ELSE emits' =
                    {[to |-> s, status |-> "waiting", roomId |-> r, message |-> None,
                      matchedUser |-> randomMatches[r].matchedUserData[s]]}]_vars

\* socket 1 accepted alone, then socket 2 accepted: both are told `connected`
HandshakeOrderWitness ==
    /\ events = 2
    /\ Accepted(PendingRoomId, 1) /\ Accepted(PendingRoomId, 2)
    /\ emits = {Status(1, "connected", "u2", PendingRoomId, None),
                Status(2, "connected", "u1", PendingRoomId, None)}

\* ------------------------------------------------------------------- C8

\* C8: randomMatchAccept by a participant of a room whose participants have all
\* accepted leaves the stored rooms, the waiting queue and the registry as they
\* are, keeps the room stored and emits no error.
AcceptIdempotent ==
    [][\A s \in Sockets, r \in RoomIds :
        (/\ RoomExists(r)
         /\ s \in Participants(r)
         /\ \A p \in Participants(r) : Accepted(r, p)
         /\ RandomMatchAccept(s, r)) =>
            /\ randomMatches' = randomMatches
            /\ waitingQueue' = waitingQueue
            /\ users' = users
            /\ RoomExists(r)'
            /\ \A e \in emits' : e.status # "error"]_vars

\* one event has been handled in the connected room, it emitted `connected`
\* and added no key: an accept by socket 1 or 2, which left everything as it was
AcceptIdempotentWitness ==
    /\ events = 1
    /\ StoredRooms = {PendingRoomId}
    /\ randomMatches[PendingRoomId].acceptances = [k \in {1, 2} |-> TRUE]
    /\ \E e \in emits : e.status = "connected"
    /\ waitingQueue = <<>>

\* ------------------------------------------------------------------- C9

\* not all participants of the stored room have accepted
Pending(roomId) ==
    RoomExists(roomId) /\ \E p \in Participants(roomId) : ~Accepted(roomId, p)

RejectedStatus(to, roomId) ==
    [to |-> to, status |-> "rejected", roomId |-> roomId, message |-> None,
     matchedUser |-> None]

\* the effects of a reject on the directory and the pool: the room is gone and
\* the queue has one more entry, the rejecting socket with the current time
RejectRequeuesSender(s, r) ==
    /\ ~RoomExists(r)'
    /\ \A x \in RoomIds \ {r} : randomMatches'[x] = randomMatches[x]
    /\ waitingQueue' = Append(waitingQueue, [socketId |-> s, timestamp |-> clock])

\* C9 as stated: randomMatchReject by a participant of a pending room emits
\* `rejected` to both participants, removes the room and appends one queue
\* entry, for the rejecting socket with the current time.
RejectNotifiesBoth ==
    [][\A s \in Sockets, r \in RoomIds :
        (Pending(r) /\ s \in Participants(r) /\ RandomMatchReject(s, r)) =>
            /\ \A p \in Participants(r) : RejectedStatus(p, r) \in emits'
            /\ RejectRequeuesSender(s, r)]_vars

\* C9 amended: `rejected` goes to the participants, and reaches each participant
\* that is still connected; the room is removed and only the rejecting socket
\* is appended to the queue, with the current time.
RejectNotifiesConnected ==
    [][\A s \in Sockets, r \in RoomIds :
        (Pending(r) /\ s \in Participants(r) /\ RandomMatchReject(s, r)) =>
            /\ \A p \in Participants(r) :
                    sockState[p] = "open" => RejectedStatus(p, r) \in emits'
            /\ emits' \subseteq {RejectedStatus(p, r) : p \in Participants(r)}
            /\ RejectRequeuesSender(s, r)]_vars

\* socket 2 rejected the pending room: both were told, the room is gone and
\* only socket 2 is in the queue
RejectNotifiesConnectedWitness ==
    /\ events = 1
    /\ emits = {RejectedStatus(1, PendingRoomId), RejectedStatus(2, PendingRoomId)}
    /\ StoredRooms = {}
    /\ waitingQueue = <<[socketId |-> 2, timestamp |-> clock]>>

\* ------------------------------------------------------------------ C10

\* the entries of the queue that are at least 15000 ms old
StaleEntries(q, now) ==
    LET Old(e) == now - e.timestamp >= 15000 IN SelectSeq(q, Old)

\* C10: the scan of findRandomMatch claims an entry only if its age is below
\* 15000 ms, leaves every older entry in the queue, and does claim an entry
\* whenever one younger than 15000 ms is in the queue.
StaleNeverClaimed ==
    [][\A h \in Slots : Scans(h) =>
        /\ StaleEntries(waitingQueue', clock) = StaleEntries(waitingQueue, clock)
        /\ inflight'[h].pc = "fetchWaiting" =>
              \E k \in 1..Len(waitingQueue) :
                  /\ clock - waitingQueue[k].timestamp < 15000
                  /\ waitingQueue[k].socketId = inflight'[h].otherSocketId
                  /\ waitingQueue' =
                        SubSeq(waitingQueue, 1, k - 1) \o SubSeq(waitingQueue, k + 1, Len(waitingQueue))
        /\ (\E k \in 1..Len(waitingQueue) : clock - waitingQueue[k].timestamp < 15000)
              => inflight'[h].pc = "fetchWaiting"]_vars

\* at 16000 the entry of socket 1, enqueued at 1000, was passed over by the
\* scan of socket 2, which was appended behind it
StaleNeverClaimedWitness ==
    /\ clock = 16000
    /\ waitingQueue = <<[socketId |-> 1, timestamp |-> 1000],
                        [socketId |-> 2, timestamp |-> 16000]>>
    /\ emits = {Status(2, "waiting", None, None, "waiting")}

\* ------------------------------------------------------------------ C11

\* C11: in every state reached after the disconnect of a connection has been
\* handled, the registry has no identity for it and the waiting queue has no
\* entry of it.
DisconnectCleanup ==
    \A s \in Sockets :
        sockState[s] = "closed" => (users[s] = None /\ ~InPool(s))

\* ------------------------------------------------------------------ C12

\* the queue without the entry at the first position that belongs to the socket
WithoutFirstEntryOf(q, sock) ==
    LET first == CHOOSE k \in 1..Len(q) :
                    q[k].socketId = sock /\ \A j \in 1..(k - 1) : q[j].socketId # sock
    IN [k \in 1..(Len(q) - 1) |-> IF k < first THEN q[k] ELSE q[k + 1]]

\* C12: cancelRandomMatch of a connection that has an entry in the waiting queue
\* takes that entry (its first one) out and leaves the other entries in place;
\* of a connection without entry it leaves the queue as it is; the stored
\* rooms and the registry are unchanged in both cases.
CancelRemovesEntry ==
    [][\A s \in Sockets : CancelRandomMatch(s) =>
        /\ InPool(s) =>
              /\ waitingQueue' = WithoutFirstEntryOf(waitingQueue, s)
              /\ EntriesOf(waitingQueue', s) = EntriesOf(waitingQueue, s) - 1
        /\ ~InPool(s) => waitingQueue' = waitingQueue
        /\ randomMatches' = randomMatches
        /\ users' = users]_vars

\* from the pending room two events have emptied both the stored rooms and the
\* queue, with every socket still open and no handler suspended: a reject,
\* which put the rejecting socket in the queue, and the cancel of that socket
CancelRemovesEntryWitness ==
    /\ events = 2
    /\ StoredRooms = {}
    /\ waitingQueue = <<>>
    /\ emits = {}
    /\ \A h \in Slots : inflight[h].pc = "idle"
    /\ \A s \in Sockets : sockState[s] = "open"

\* ------------------------------------------------------------------ C13

\* the handler of slot h stores, in this step, the room of its requester and
\* the claimed waiter under the id r
StoresRoomAs(h, r) ==
    /\ inflight[h].pc = "fetchWaiting"
    /\ randomMatches'[r] # randomMatches[r]
    /\ randomMatches'[r].users = <<inflight[h].sock, inflight[h].otherSocketId>>

\* C13: the room id of requester X and waiter Y is the room id of requester Y
\* and waiter X, for all connections X and Y; a handler that pairs requester X
\* with waiter Y stores the room under the id the opposite roles would give.
RoomIdDeterminism ==
    /\ [](\A x \in Sockets, y \in Sockets : RoomIdOf(x, y) = RoomIdOf(y, x))
    /\ [][\A h \in Slots, r \in RoomIds :
            StoresRoomAs(h, r) =>
                /\ r = RoomIdOf(inflight[h].otherSocketId, inflight[h].sock)
                /\ \A e \in emits' : e.roomId = r]_vars

\* two rooms are stored, one whose requester sorts after its waiter and one
\* whose requester sorts before it
RoomIdDeterminismWitness ==
    \E r1 \in StoredRooms, r2 \in StoredRooms :
        /\ randomMatches[r1].users[1] > randomMatches[r1].users[2]
        /\ randomMatches[r2].users[1] < randomMatches[r2].users[2]

\* ------------------------------------------------------------------ C14

\* End to end: sockets 1 and 2 are registered as u1 and u2, the queue is empty;
\* they ask for matches and accept, while time passes and fetches resolve in
\* every possible way.
InitEndToEnd ==
    /\ sockState = [s \in Sockets |-> "open"]
    /\ users = [s \in Sockets |-> IF s = 1 THEN "u1" ELSE IF s = 2 THEN "u2" ELSE None]
    /\ waitingQueue = <<>>
    /\ randomMatches = [r \in RoomIds |-> NoRoom]
    /\ joined = [r \in RoomIds |-> {}]
    /\ clock = 0
    /\ inflight = [h \in Slots |-> Idle]
    /\ emits = {}
    /\ events = 0
    /\ normCall = NoCall

\* the scenario has four events: two requests and two accepts
SpendEndToEnd == events < MaxEvents + 1 /\ events' = events + 1

NextEndToEnd ==
    \/ \E s \in {1, 2} : SpendEndToEnd /\ FindRandomMatch(s) /\ UNCHANGED normCall
    \/ \E h \in Slots, res \in AllOutcomes : ResumeCurrent(h, res) /\ UNCHANGED <<events, normCall>>
    \/ \E h \in Slots, res \in AllOutcomes : ResumeWaiting(h, res) /\ UNCHANGED <<events, normCall>>
    \/ \E s \in {1, 2}, r \in RoomIds : SpendEndToEnd /\ RandomMatchAccept(s, r) /\ UNCHANGED normCall
    \/ \E t \in Times : Tick(t) /\ UNCHANGED <<events, normCall>>

SpecEndToEnd == InitEndToEnd /\ [][NextEndToEnd]_vars

\* the interests columns of the scenario: "b; A" for {music, art} of u1 and
\* "c,A" for {travel, art} of u2
MusicArt == <<"b", ";", " ", "A">>
TravelArt == <<"c", ",", "A">>

OkRow(interests) == [kind |-> "ok", interests |-> interests]

\* the room of requester 2 and waiter 1 is stored
ScenarioRoom ==
    /\ RoomExists(PendingRoomId)
    /\ randomMatches[PendingRoomId].users = <<2, 1>>

\* C14: with an empty queue the request of u1 (socket 1) is answered `waiting`
\* and queued; the request of u2 (socket 2) handled less than 15000 ms later
\* claims that entry, and with the profile of u1 both are told `pending` with
\* one room id and the identity of the other; after the accept of socket 1 the
\* accept of socket 2 makes both be told `connected` with that room id.
EndToEnd ==
    /\ [][\A h \in Slots :
            (/\ inflight[h].sock = 1
             /\ waitingQueue = <<>>
             /\ ResumeCurrent(h, OkRow(MusicArt))) =>
                /\ emits' = {Status(1, "waiting", None, None, "waiting")}
                /\ waitingQueue' = <<[socketId |-> 1, timestamp |-> clock]>>]_vars
    /\ [][\A h \in Slots :
            (/\ inflight[h].sock = 2
             /\ Len(waitingQueue) = 1
             /\ waitingQueue[1].socketId = 1
             /\ clock - waitingQueue[1].timestamp < 15000
             /\ ResumeCurrent(h, OkRow(TravelArt))) =>
                /\ Holds(h, 1)'
                /\ inflight'[h].sock = 2
                /\ waitingQueue' = <<>>]_vars
    /\ [][\A h \in Slots :
            (/\ Holds(h, 1)
             /\ inflight[h].sock = 2
             /\ inflight[h].currentInterests = << <<"c">>, <<"a">> >>
             /\ ResumeWaiting(h, OkRow(MusicArt))) =>
                /\ ScenarioRoom'
                /\ \A p \in {1, 2} : ~Accepted(PendingRoomId, p)'
                /\ emits' =
                    {[to |-> 1, status |-> "pending", matchedUser |-> "u2",
                      roomId |-> PendingRoomId, message |-> None],
                     [to |-> 2, status |-> "pending", matchedUser |-> "u1",
                      roomId |-> PendingRoomId, message |-> None]}]_vars
    /\ [][(/\ ScenarioRoom
           /\ \A p \in {1, 2} : ~Accepted(PendingRoomId, p)
           /\ RandomMatchAccept(1, PendingRoomId)) =>
                /\ ScenarioRoom'
                /\ Accepted(PendingRoomId, 1)'
                /\ ~Accepted(PendingRoomId, 2)']_vars
    /\ [][(/\ ScenarioRoom
           /\ Accepted(PendingRoomId, 1)
           /\ ~Accepted(PendingRoomId, 2)
           /\ RandomMatchAccept(2, PendingRoomId)) =>
                emits' =
                    {[to |-> 1, status |-> "connected", matchedUser |-> "u2",
                      roomId |-> PendingRoomId, message |-> None],
                     [to |-> 2, status |-> "connected", matchedUser |-> "u1",
                      roomId |-> PendingRoomId, message |-> None]}]_vars

\* the four events of the scenario have been handled and both sockets have
\* been told `connected`
EndToEndWitness ==
    /\ events = 4
    /\ ScenarioRoom
    /\ Accepted(PendingRoomId, 1) /\ Accepted(PendingRoomId, 2)
    /\ emits = {Status(1, "connected", "u2", PendingRoomId, None),
                Status(2, "connected", "u1", PendingRoomId, None)}

\* ------------------------------------------------------------------ C15

\* the characters of the interests strings tried: an upper-case letter, a
\* lower-case letter, a blank and the two separators
Alphabet == {"A", "b", " ", ",", ";"}

\* all strings of at most n characters
Strings(n) == UNION {[1..k -> Alphabet] : k \in 0..n}

\* "Music, Travel;Art"
ExampleString ==
    <<"M", "u", "s", "i", "c", ",", " ", "T", "r", "a", "v", "e", "l", ";", "A", "r", "t">>

NormalizeInputs == Strings(MaxLen) \cup {NullString, ExampleString}

\* normalizeInterests is about to be called on one of the inputs
InitNormalize ==
    /\ sockState = [s \in Sockets |-> "open"]
    /\ users = [s \in Sockets |-> None]
    /\ waitingQueue = <<>>
    /\ randomMatches = [r \in RoomIds |-> NoRoom]
    /\ joined = [r \in RoomIds |-> {}]
    /\ clock = 0
    /\ inflight = [h \in Slots |-> Idle]
    /\ emits = {}
    /\ events = 0
    /\ normCall \in {[interests |-> i, result |-> <<>>, returned |-> FALSE] :
                        i \in NormalizeInputs}

\* the call returns
CallNormalize ==
    /\ ~normCall.returned
    /\ normCall' = [normCall EXCEPT !.result = normalizeInterests(normCall.interests),
                                    !.returned = TRUE]
    /\ UNCHANGED <<sockState, users, waitingQueue, randomMatches, joined, clock,
                   inflight, emits, events>>

NextNormalize == CallNormalize

SpecNormalize == InitNormalize /\ [][NextNormalize]_vars

Separators == {",", ";"}
UpperCaseChars == {"A", "B", "M", "T"}

\* the positions at which a piece of the string starts: the first one and the
\* one after each comma or semicolon
PieceStarts(s) == {1} \cup {i + 1 : i \in {j \in 1..Len(s) : s[j] \in Separators}}

\* the piece that starts at position a: up to the next separator or the end
PieceAt(s, a) ==
    LET ends == {i \in a..Len(s) : s[i] \in Separators}
        last == IF ends = {} THEN Len(s)
                ELSE (CHOOSE i \in ends : \A j \in ends : i <= j) - 1
    IN SubSeq(s, a, last)

\* the pieces of the string, from left to right
Pieces(s) ==
    LET starts == PieceStarts(s)
        Kth(k) == CHOOSE a \in starts : Cardinality({b \in starts : b < a}) = k - 1
    IN [k \in 1..Cardinality(starts) |-> PieceAt(s, Kth(k))]

\* a piece without the blanks around it
Trimmed(p) ==
    LET inked == {i \in 1..Len(p) : p[i] \notin Whitespace}
    IN IF inked = {} THEN <<>>
       ELSE SubSeq(p, CHOOSE i \in inked : \A j \in inked : i <= j,
                      CHOOSE i \in inked : \A j \in inked : i >= j)

NonEmpty(p) == Len(p) > 0

\* the pieces, trimmed and lower-cased, without the empty ones
ExpectedTokens(s) ==
    SelectSeq([k \in 1..Len(Pieces(s)) |-> LowerCase(Trimmed(Pieces(s)[k]))], NonEmpty)

\* C15: normalizeInterests returns the comma- or semicolon-separated pieces of
\* its argument, trimmed and lower-cased, without the empty ones: every token
\* is non-empty, has no upper-case letter and no blank at either end; the
\* result is empty for null and for the empty string, and
\* "Music, Travel;Art" gives music, travel, art.
NormalizeSplitsTrimsLowers ==
    (normCall.returned /\ normCall # NoCall) =>
        LET s == normCall.interests
            r == normCall.result
        IN /\ (s = NullString \/ s = <<>>) => r = <<>>
           /\ (s # NullString /\ s # <<>>) => r = ExpectedTokens(s)
           /\ \A k \in 1..Len(r) :
                /\ Len(r[k]) > 0
                /\ \A i \in 1..Len(r[k]) : r[k][i] \notin UpperCaseChars
                /\ r[k][1] \notin Whitespace /\ r[k][Len(r[k])] \notin Whitespace
           /\ s = ExampleString =>
                r = << <<"m", "u", "s", "i", "c">>,
                       <<"t", "r", "a", "v", "e", "l">>,
                       <<"a", "r", "t">> >>

\* the call on "Music, Travel;Art" has returned its three tokens
NormalizeSplitsTrimsLowersWitness ==
    /\ normCall.returned
    /\ normCall.interests = ExampleString
    /\ Len(normCall.result) = 3

\* ------------------------------------------------------------------ C16

\* C16: in every reachable state no two connections are registered under the
\* same identity.
OneConnectionPerIdentity ==
    \A s \in Sockets, t \in Sockets :
        (users[s] # None /\ users[s] = users[t]) => s = t

\* ------------------------------------------------------------- chat relay

\* results of supabase.from("messages").insert([...]): the call resolves without
\* error, resolves with an error, or rejects
InsertOutcomes == {"ok", "error", "throw"}

\* one privateMessage event as received by socket `to`
PrivateMessageEvent(to, senderId, message) ==
    [to |-> to, event |-> "privateMessage", senderId |-> senderId, message |-> message,
     status |-> None]

\* Object.entries(users).forEach(...): the message goes to every socket that is
\* registered under the recipient's identity, with the sender's identity as it
\* is registered now
RelayPrivateMessage(sock, recipientId, message) ==
    {PrivateMessageEvent(s, users[sock], message) :
        s \in {t \in Sockets : users[t] # None /\ users[t] = recipientId}}

\* socket.on("privateMessage", async ({ recipientId, message }) => ...) up to
\* the await of the insert
PrivateMessage(sock, recipientId) ==
    /\ sockState[sock] = "open"
    /\ FreeSlots # {}
    /\ LET h == CHOOSE x \in FreeSlots : \A y \in FreeSlots : x <= y
       IN inflight' = [inflight EXCEPT ![h] =
              [Idle EXCEPT !.pc = "insertMessage", !.sock = sock,
                           !.recipientId = recipientId]]
    /\ emits' = {}
    /\ UNCHANGED <<sockState, users, waitingQueue, randomMatches, joined, clock>>

\* faulty variant: a rejected insert ends the handler with an error to the sender
ResumePrivateMessageOrFail(h, outcome) ==
    /\ inflight[h].pc = "insertMessage"
    /\ outcome \in InsertOutcomes
    /\ emits' = IF outcome = "throw"
                THEN {[to |-> inflight[h].sock, event |-> "error", senderId |-> None,
                       message |-> "failed", status |-> "error"]}
                ELSE RelayPrivateMessage(inflight[h].sock, inflight[h].recipientId, "hi")
    /\ inflight' = [inflight EXCEPT ![h] = Idle]
    /\ UNCHANGED <<sockState, users, waitingQueue, randomMatches, joined, clock>>

\* the privateMessage handler from the resolution of the insert to its end: the
\* error or the exception is logged, then the message is relayed
ResumePrivateMessage(h, outcome) ==
    /\ inflight[h].pc = "insertMessage"
    /\ outcome \in InsertOutcomes
    /\ emits' = RelayPrivateMessage(inflight[h].sock, inflight[h].recipientId, "hi")
    /\ inflight' = [inflight EXCEPT ![h] = Idle]
    /\ UNCHANGED <<sockState, users, waitingQueue, randomMatches, joined, clock>>

\* registrations, private messages and disconnects; the handler reads the
\* registry and writes none of the matchmaking structures
NextChat ==
    \/ \E j \in JoinInputs : Join(j[1], j[2]) /\ UNCHANGED <<events, normCall>>
    \/ \E s \in Sockets, rid \in Identities :
            Spend /\ PrivateMessage(s, rid) /\ UNCHANGED normCall
    \/ \E h \in Slots, o \in InsertOutcomes :
            ResumePrivateMessage(h, o) /\ UNCHANGED <<events, normCall>>
    \/ \E s \in Sockets : Spend /\ Disconnect(s) /\ UNCHANGED normCall

SpecChat == Init /\ [][NextChat]_vars

\* ------------------------------------------------------------------ C17

\* C17: whether the insert of a private message succeeds, returns an error or
\* throws, the handler then emits the message to every connection registered
\* under the recipient's identity at that moment, and emits nothing else (no
\* error to the sender).
RelayDecoupledFromPersistence ==
    [][\A h \in Slots, o \in InsertOutcomes :
        ResumePrivateMessage(h, o) =>
            /\ \A s \in Sockets :
                (users[s] # None /\ users[s] = inflight[h].recipientId) =>
                    [to |-> s, event |-> "privateMessage", message |-> "hi",
                     senderId |-> users[inflight[h].sock], status |-> None] \in emits'
            /\ \A e \in emits' :
                /\ e.event = "privateMessage"
                /\ e.status # "error"
                /\ users[e.to] = inflight[h].recipientId]_vars

\* the message of socket 2 (u2) for u1 has been relayed to both connections
\* registered as u1
RelayDecoupledFromPersistenceWitness ==
    emits = {PrivateMessageEvent(1, "u2", "hi"), PrivateMessageEvent(3, "u2", "hi")}

\* ------------------------------------------------------------------ C18

\* A stale entry: socket 1 asked for a match at 0 and was queued; it is now
\* 16000 and nothing else has happened.
InitStale ==
    /\ sockState = [s \in Sockets |-> "open"]
    /\ users = [s \in Sockets |-> IF s = 1 THEN "u1" ELSE None]
    /\ waitingQueue = <<WaitingEntry(1, 0)>>
    /\ randomMatches = [r \in RoomIds |-> NoRoom]
    /\ joined = [r \in RoomIds |-> {}]
    /\ clock = 16000
    /\ inflight = [h \in Slots |-> Idle]
    /\ emits = {Status(1, "waiting", None, None, "waiting")}
    /\ events = 0
    /\ normCall = NoCall

\* every event may follow; 16000 is the last instant of the model, so the
\* clock stays where it is
NextStale ==
    \/ \E j \in JoinInputs : Join(j[1], j[2]) /\ UNCHANGED <<events, normCall>>
    \/ \E s \in Sockets : Spend /\ FindRandomMatch(s) /\ UNCHANGED normCall
    \/ \E h \in Slots, res \in AllOutcomes : ResumeCurrent(h, res) /\ UNCHANGED <<events, normCall>>
    \/ \E h \in Slots, res \in AllOutcomes : ResumeWaiting(h, res) /\ UNCHANGED <<events, normCall>>
    \/ \E s \in Sockets, r \in RoomIds : Spend /\ RandomMatchAccept(s, r) /\ UNCHANGED normCall
    \/ \E s \in Sockets, r \in RoomIds : Spend /\ RandomMatchReject(s, r) /\ UNCHANGED normCall
    \/ \E s \in Sockets : Spend /\ CancelRandomMatch(s) /\ UNCHANGED normCall
    \/ \E s \in Sockets : Spend /\ Disconnect(s) /\ UNCHANGED normCall

SpecStale == InitStale /\ [][NextStale]_vars

\* the start of the scenario, as reached from Init by one request and a tick
StaleStartReached ==
    /\ waitingQueue = <<WaitingEntry(1, 0)>>
    /\ clock = 16000
    /\ users = [s \in Sockets |-> IF s = 1 THEN "u1" ELSE None]
    /\ \A s \in Sockets : sockState[s] = "open"
    /\ StoredRooms = {}
    /\ \A h \in Slots : inflight[h] = Idle
    /\ emits = {Status(1, "waiting", None, None, "waiting")}

NotStaleStartReached == ~StaleStartReached

\* how often the entry occurs in the queue
Occurrences(q, e) == Cardinality({k \in 1..Len(q) : q[k] = e})

\* the scan of slot h passes over position k of the queue: no entry before it
\* is younger than 15000 ms
PassedOverBy(h, k) ==
    /\ Scans(h)
    /\ \A j \in 1..(k - 1) : clock - waitingQueue[j].timestamp >= 15000

\* C18: an entry of the waiting queue that is 15000 ms old or older leaves
\* the queue only in a step in which a scan of findRandomMatch passes over it,
\* or in the cancelRandomMatch or the disconnect of its own connection; the
\* passage of time and all other events leave it in the queue.
LazyExpiration ==
    [][\A k \in 1..Len(waitingQueue) :
        LET e == waitingQueue[k]
        IN (/\ clock - e.timestamp >= 15000
            /\ Occurrences(waitingQueue', e) < Occurrences(waitingQueue, e)) =>
                \/ CancelRandomMatch(e.socketId)
                \/ Disconnect(e.socketId)
                \/ \E h \in Slots : PassedOverBy(h, k)]_vars

\* one event has emptied the queue of its stale entry and left socket 1 open
\* and no handler suspended: the cancel of socket 1
LazyExpirationWitness ==
    /\ events = 1
    /\ clock = 16000
    /\ waitingQueue = <<>>
    /\ \A s \in Sockets : sockState[s] = "open"
    /\ \A h \in Slots : inflight[h].pc = "idle"

\* ------------------------------------------------------------------ C19

\* C19: between the step in which a handler takes a waiting entry out of the
\* queue and the step in which it stores the room (or gives up), no other event
\* is handled: no request, accept, reject, cancel, disconnect or join, and no
\* step of another handler.
ClaimToRoomUninterrupted ==
    [][\A h \in Slots :
        inflight[h].pc = "fetchWaiting" =>
            \/ \E res \in AllOutcomes : ResumeWaiting(h, res)
            \/ /\ events' = events
               /\ users' = users
               /\ sockState' = sockState
               /\ \A g \in Slots : inflight'[g] = inflight[g]]_vars

\* ------------------------------------------------------------------ C20

\* the handler of slot h ends in this step without the row of its partner:
\* the fetch of the partner's profile gave an error or threw, as it does when
\* the partner has no registered identity
PartnerUnresolved(h) ==
    \E res \in AllOutcomes : res.kind # "ok" /\ ResumeWaiting(h, res)

\* C20: when the handler has claimed a partner and the partner's identity or
\* profile cannot be resolved, exactly one event is emitted, an `error` status
\* to the requester; no room is stored and the queue stays as it is, so neither
\* the partner nor the requester is admitted.
PartnerFailureLeavesPartnerOut ==
    /\ [][\A h \in Slots :
            PartnerUnresolved(h) =>
                /\ \E e \in emits' :
                      emits' = {e} /\ e.to = inflight[h].sock /\ e.status = "error"
                /\ randomMatches' = randomMatches
                /\ waitingQueue' = waitingQueue
                /\ EntriesOf(waitingQueue', inflight[h].otherSocketId)
                      = EntriesOf(waitingQueue, inflight[h].otherSocketId)
                /\ EntriesOf(waitingQueue', inflight[h].sock)
                      = EntriesOf(waitingQueue, inflight[h].sock)]_vars
    /\ [][\A h \in Slots :
            (/\ inflight[h].pc = "fetchWaiting"
             /\ inflight[h].waitingUserId = None
             /\ inflight'[h].pc # "fetchWaiting") => PartnerUnresolved(h)]_vars

\* the second fetch has failed: the requester was told "Error finding matches",
\* the queue is empty and no room is stored
PartnerFailureLeavesPartnerOutWitness ==
    /\ \E s \in Sockets : emits = {Status(s, "error", None, None, "finding")}
    /\ waitingQueue = <<>>
    /\ StoredRooms = {}
    /\ \A h \in Slots : inflight[h].pc = "idle"

\* ------------------------------------------------------------------ C21

\* the handler of slot h ends in this step with the row of its partner and
\* finds no interest in common
NoMutualInterest(h) ==
    \E res \in AllOutcomes :
        /\ res.kind = "ok"
        /\ ResumeWaiting(h, res)
        /\ SharedInterests(inflight[h].currentInterests,
                           normalizeInterests(res.interests)) = {}

\* C21: when the handler has claimed a partner and the two normalized interest
\* lists have nothing in common, one `error` status is emitted, to the
\* requester; the stored rooms are unchanged; and after the step neither the
\* requester nor the claimed partner has an entry in the waiting queue.
NoMutualLeavesBothOut ==
    [][\A h \in Slots :
        NoMutualInterest(h) =>
            /\ \E e \in emits' :
                  emits' = {e} /\ e.to = inflight[h].sock /\ e.status = "error"
            /\ randomMatches' = randomMatches
            /\ EntriesOf(waitingQueue', inflight[h].sock) = 0
            /\ EntriesOf(waitingQueue', inflight[h].otherSocketId) = 0]_vars

\* ------------------------------------------------------------------ C22

\* Requests only: sockets register and ask for matches, the handlers run on
\* and time passes.
NextFind ==
    \/ \E j \in JoinInputs : Join(j[1], j[2]) /\ UNCHANGED <<events, normCall>>
    \/ \E s \in Sockets : Spend /\ FindRandomMatch(s) /\ UNCHANGED normCall
    \/ \E h \in Slots, res \in AllOutcomes : ResumeCurrent(h, res) /\ UNCHANGED <<events, normCall>>
    \/ \E h \in Slots, res \in AllOutcomes : ResumeWaiting(h, res) /\ UNCHANGED <<events, normCall>>
    \/ \E t \in Times : Tick(t) /\ UNCHANGED <<events, normCall>>

SpecFind == Init /\ [][NextFind]_vars

\* C22: findRandomMatch of a connection without registered identity changes
\* neither the registry nor the waiting queue nor the stored rooms, starts no
\* handler and emits nothing.
UnregisteredRequestIsNoOp ==
    [][\A s \in Sockets :
        (users[s] = None /\ FindRandomMatch(s)) =>
            /\ users' = users
            /\ waitingQueue' = waitingQueue
            /\ randomMatches' = randomMatches
            /\ inflight' = inflight
            /\ emits' = {}]_vars

\* one request has been handled while no socket was registered, and nothing
\* has come of it
UnregisteredRequestIsNoOpWitness ==
    /\ events = 1
    /\ \A s \in Sockets : users[s] = None
    /\ waitingQueue = <<>>
    /\ StoredRooms = {}
    /\ emits = {}
    /\ \A h \in Slots : inflight[h] = Idle

\* ------------------------------------------------------------------ C23

\* the fetch of the requester's profile gives no usable profile: it throws or
\* returns an error (also when there is no row), or the row has no interests
NoUsableProfile(res) ==
    \/ res.kind # "ok"
    \/ normalizeInterests(res.interests) = <<>>

\* C23: when the requester's profile is missing, cannot be fetched or has no
\* interests, the handler emits one `error` status, to the requester, and
\* ends: the waiting queue and the stored rooms are unchanged.
IncompleteProfileStops ==
    [][\A h \in Slots, res \in AllOutcomes :
        (NoUsableProfile(res) /\ ResumeCurrent(h, res)) =>
            /\ \E e \in emits' :
                  emits' = {e} /\ e.to = inflight[h].sock /\ e.status = "error"
            /\ inflight'[h].pc = "idle"
            /\ waitingQueue' = waitingQueue
            /\ randomMatches' = randomMatches]_vars

\* ------------------------------------------------------------------ C24

\* the positions of the queue whose entry is younger than 15000 ms
FreshPositions == {k \in 1..Len(waitingQueue) : clock - waitingQueue[k].timestamp < 15000}

\* the sequence without its k-th element, the others in their order
Without(q, k) == [j \in 1..(Len(q) - 1) |-> IF j < k THEN q[j] ELSE q[j + 1]]

\* C24: the scan of findRandomMatch takes the front-most entry younger than
\* 15000 ms as partner, removes that entry alone and keeps the others in their
\* order; when no entry is that young, the entries stay as they are and the
\* requester is appended behind them with the current time and told `waiting`.
ClaimsFrontMostFresh ==
    [][\A h \in Slots : Scans(h) =>
        IF FreshPositions # {}
        THEN LET k == CHOOSE i \in FreshPositions : \A j \in FreshPositions : i <= j
             IN /\ inflight'[h].pc = "fetchWaiting"
                /\ inflight'[h].otherSocketId = waitingQueue[k].socketId
                /\ waitingQueue' = Without(waitingQueue, k)
        ELSE /\ inflight'[h].pc = "idle"
             /\ Len(waitingQueue') = Len(waitingQueue) + 1
             /\ SubSeq(waitingQueue', 1, Len(waitingQueue)) = waitingQueue
             /\ waitingQueue'[Len(waitingQueue')] =
                    [socketId |-> inflight[h].sock, timestamp |-> clock]
             /\ emits' = {[to |-> inflight[h].sock, status |-> "waiting",
                           matchedUser |-> None, roomId |-> None,
                           message |-> "waiting"]}]_vars

\* with the entries of sockets 3 and 2 in the queue, both young, the handler of
\* socket 1 has taken the one of socket 3 and left the one of socket 2
ClaimsFrontMostFreshWitness ==
    /\ \E h \in Slots : Holds(h, 3) /\ inflight[h].sock = 1
    /\ waitingQueue = <<[socketId |-> 2, timestamp |-> 0]>>
    /\ clock = 0

\* ------------------------------------------------------------------ C25

\* the handler of slot h ends in this step by pairing its requester with the
\* claimed partner: the partner's row has an interest in common
Pairs(h) ==
    \E res \in AllOutcomes :
        /\ res.kind = "ok"
        /\ ResumeWaiting(h, res)
        /\ SharedInterests(inflight[h].currentInterests,
                           normalizeInterests(res.interests)) # {}

\* the identity a participant of the pairing of slot h was registered under
\* when the handler read the registry
IdentityIn(h, p) ==
    IF p = inflight[h].otherSocketId THEN inflight[h].waitingUserId
    ELSE inflight[h].currentUserId

\* C25: a pairing stores one room, under the id of the sorted pair, with the
\* requester and the claimed partner as participants, and changes no other
\* room; it emits `pending` with that id to each of the two, and nothing else,
\* the matched user of each being the identity of the other.
PairingStoresOneRoom ==
    [][\A h \in Slots :
        Pairs(h) =>
            LET s == inflight[h].sock
                o == inflight[h].otherSocketId
                r == IF s <= o THEN <<s, o>> ELSE <<o, s>>
            IN /\ randomMatches'[r].users = <<s, o>>
               /\ \A x \in RoomIds \ {r} : randomMatches'[x] = randomMatches[x]
               /\ emits' =
                    {[to |-> p, status |-> "pending", roomId |-> r, message |-> None,
                      matchedUser |-> IdentityIn(h, IF p = s THEN o ELSE s)] : p \in {s, o}}]_vars

\* requester 1 (u1) has been paired with waiter 2 (u2): their room is the only
\* one stored and each has been told `pending` with the other's identity
PairingStoresOneRoomWitness ==
    /\ StoredRooms = {<<1, 2>>}
    /\ randomMatches[<<1, 2>>].users = <<1, 2>>
    /\ emits = {Status(1, "pending", "u2", <<1, 2>>, None),
                Status(2, "pending", "u1", <<1, 2>>, None)}

\* ------------------------------------------------------------------ C26

\* From the pending room every event may follow, and accepts and rejects may
\* name any room id a client can send.
NextAnyRoomId ==
    \/ \E j \in JoinInputs : Join(j[1], j[2]) /\ UNCHANGED <<events, normCall>>
    \/ \E s \in Sockets : Spend /\ FindRandomMatch(s) /\ UNCHANGED normCall
    \/ \E h \in Slots, res \in AllOutcomes : ResumeCurrent(h, res) /\ UNCHANGED <<events, normCall>>
    \/ \E h \in Slots, res \in AllOutcomes : ResumeWaiting(h, res) /\ UNCHANGED <<events, normCall>>
    \/ \E s \in Sockets, r \in RoomIdInputs : Spend /\ RandomMatchAccept(s, r) /\ UNCHANGED normCall
    \/ \E s \in Sockets, r \in RoomIdInputs : Spend /\ RandomMatchReject(s, r) /\ UNCHANGED normCall
    \/ \E s \in Sockets : Spend /\ CancelRandomMatch(s) /\ UNCHANGED normCall
    \/ \E s \in Sockets : Spend /\ Disconnect(s) /\ UNCHANGED normCall
    \/ \E t \in Times : Tick(t) /\ UNCHANGED <<events, normCall>>

SpecAnyRoomId == InitPending /\ [][NextAnyRoomId]_vars

\* a room is stored under the id
InDirectory(roomId) == roomId \in RoomIds /\ RoomExists(roomId)

\* C26: randomMatchAccept and randomMatchReject that name a room id under
\* which no room is stored change neither the stored rooms nor the waiting
\* queue nor the registry, and emit nothing.
UnknownRoomIsNoOp ==
    [][\A s \in Sockets, r \in RoomIdInputs :
        (~InDirectory(r) /\ (RandomMatchAccept(s, r) \/ RandomMatchReject(s, r))) =>
            /\ randomMatches' = randomMatches
            /\ waitingQueue' = waitingQueue
            /\ users' = users
            /\ emits' = {}]_vars

\* ------------------------------------------------------------------ C27

\* C27: a disconnect leaves the stored rooms as they are, those of the
\* disconnecting socket included (same participants, same acceptance flags),
\* and emits no status.
DisconnectKeepsRooms ==
    [][\A s \in Sockets :
        Disconnect(s) =>
            /\ randomMatches' = randomMatches
            /\ \A r \in StoredRooms :
                    s \in Participants(r) =>
                        /\ RoomExists(r)'
                        /\ randomMatches'[r].users = randomMatches[r].users
                        /\ randomMatches'[r].acceptances = randomMatches[r].acceptances
            /\ emits' = {}]_vars

\* socket 1 of the pending room has disconnected: the room is stored as it
\* was and nothing was emitted
DisconnectKeepsRoomsWitness ==
    /\ events = 1
    /\ sockState = <<"closed", "open", "open">>
    /\ randomMatches[PendingRoomId] = NewRoom(2, 1, "u2", "u1")
    /\ emits = {}

\* ------------------------------------------------------------------ C28

\* C28: the two participants of every stored room are distinct sockets.
DistinctParticipants ==
    \A r \in StoredRooms : randomMatches[r].users[1] # randomMatches[r].users[2]

\* ------------------------------------------------------------------ C29

\* C29: every socket that has an entry in the waiting queue has an identity in
\* the registry.
PoolEntriesRegistered ==
    \A s \in Sockets : InPool(s) => users[s] # None

\* ------------------------------------------------------------------ C30

\* C30: in the step of findRandomMatch that stores a room, the requester and
\* the claimed partner both have an identity in the registry.
RoomParticipantsRegistered ==
    [][\A h \in Slots, res \in AllOutcomes :
        (ResumeWaiting(h, res) /\ randomMatches' # randomMatches) =>
            /\ users[inflight[h].sock] # None
            /\ users[inflight[h].otherSocketId] # None]_vars

\* ------------------------------------------------------------------ C31

\* C31: while a room id stays stored, an acceptance flag that is set stays
\* set, whatever the event, a new pairing of the same two sockets included.
AcceptanceNeverWithdrawn ==
    [][\A r \in RoomIds, p \in Sockets :
        (Accepted(r, p) /\ p \in Participants(r) /\ RoomExists(r)') =>
            Accepted(r, p)']_vars

\* ------------------------------------------------------------------ C32

\* C32: randomMatchAccept or randomMatchReject for a stored room by a socket
\* that is not one of its participants leaves the room's entry and the
\* waiting queue unchanged.
OnlyParticipantsChangeRoom ==
    [][\A s \in Sockets, r \in RoomIds :
        (/\ RoomExists(r)
         /\ s \notin Participants(r)
         /\ (RandomMatchAccept(s, r) \/ RandomMatchReject(s, r))) =>
            /\ randomMatches'[r] = randomMatches[r]
            /\ waitingQueue' = waitingQueue]_vars

\* ------------------------------------------------------------------ C33

\* C33: the match attempt that has taken the entry of another socket out of
\* the waiting queue ends by emitting a randomMatchStatus to that socket.
ClaimedPartnerNotified ==
    [][\A h \in Slots, res \in AllOutcomes :
        (/\ inflight[h].otherSocketId # inflight[h].sock
         /\ ResumeWaiting(h, res)) =>
            \E e \in emits' : e.to = inflight[h].otherSocketId]_vars

\* ------------------------------------------------------------------ C34

\* `connected` was emitted for the room: the flags of its participants are
\* all set
Connected(roomId) ==
    /\ RoomExists(roomId)
    /\ \A p \in Participants(roomId) : Accepted(roomId, p)

\* C34: no event removes a room whose participants have all accepted, or
\* emits `rejected` for it.
ConnectedRoomStays ==
    [][\A r \in RoomIds :
        Connected(r) =>
            /\ RoomExists(r)'
            /\ \A e \in emits' : ~(e.status = "rejected" /\ e.roomId = r)]_vars
====
